---- MODULE Spec2Model ----
(***************************************************************************)
(* Model of mctk: the KripkeStruct graph (src/mctk/models.py) and the      *)
(* explicit-state CTL evaluators built on it (src/mctk/checking.py).       *)
(*                                                                         *)
(* A KripkeStruct is the record                                            *)
(*   [atoms, states, starts, trans, trans_inverted]                        *)
(* where states is a function  name -> label  on the current state names   *)
(* and trans / trans_inverted are defaultdict(set): functions              *)
(* key -> set of names  whose DOMAIN is the set of keys the dict holds.    *)
(* Every method is an operator from the record (and the arguments) to      *)
(* [ks |-> the record afterwards, err |-> "" or the exception raised].     *)
(***************************************************************************)
EXTENDS Integers, Sequences, FiniteSets, TLC

VARIABLES atoms, states, starts, trans, trans_inverted, last, nops

vars == <<atoms, states, starts, trans, trans_inverted, last, nops>>

(***************************************************************************)
(* Bounds and input domains                                                *)
(***************************************************************************)
\* number of method calls in one run of the KripkeStruct machine
MaxOps == 2
\* longest list / dict handed to a batch method
MaxBatch == 2
\* largest label value handed to add_state / set_label_of_state / []
MaxLabel == 2
\* largest number of edges of a graph handed to the CTL evaluators
MaxEdges == 6

NameSeq == <<"s1", "s2", "s3">>
Names == {NameSeq[i] : i \in 1 .. Len(NameSeq)}
Labels == 0 .. MaxLabel
AtomLists == {<<>>, <<"p">>, <<"p", "q">>}

\* exceptions
ErrResetAtoms == "KripkeStructError: Can't reset Atoms after States are Created"
ErrAddName == "KripkeStructError: Can't add an Existing State Name again"
ErrAddLabel == "KripkeStructError: Can't add an Existing State Label again"
ErrSetLabelNoState == "KripkeStructError: Can't set the Label of a Non-Existing State"
ErrSetLabelTaken == "KripkeStructError: Can't assign an Existing State Label to a Different State Name"
ErrRemoveNoState == "KripkeStructError: Can't remove a Non-Existing State"
ErrStartNoState == "KripkeStructError: Can't set a Non-Existing State as Start State"
ErrTransNoSource == "KripkeStructError: Can't add Transition from a Non-Existing Source State"
ErrTransNoTarget == "KripkeStructError: Can't add Transition to a Non-Existing Target State"
ErrRemoveNoTrans == "KripkeStructError: Can't remove a Non-Existing Transition"
ErrValue == "ValueError: Can't assign an existing value to a differnt key"
ErrKey == "KeyError"

(***************************************************************************)
(* dict / defaultdict(set) primitives                                      *)
(***************************************************************************)
EmptyDict == [k \in {} |-> {}]

\* d[k] read on a defaultdict(set): the value, the empty set for a new key
Get(d, k) == IF k \in DOMAIN d THEN d[k] ELSE {}

\* the defaultdict after d[k] was read: a missing key is inserted
Touch(d, k) == [x \in (DOMAIN d) \cup {k} |-> IF x \in DOMAIN d THEN d[x] ELSE {}]

\* d[k] = v
Put(d, k, v) == [x \in (DOMAIN d) \cup {k} |-> IF x = k THEN v ELSE d[x]]

\* d.pop(k)
Pop(d, k) == [x \in (DOMAIN d) \ {k} |-> d[x]]

\* the values of a dict
Values(d) == {d[k] : k \in DOMAIN d}

\* the edges a defaultdict(set) holds
Edges(d) == {e \in (DOMAIN d) \X Names : e[2] \in d[e[1]]}

\* a value computed once and used under a name: F applied to the value of v
With(v, F(_)) == CHOOSE y \in {F(x) : x \in {v}} : TRUE

Ok(ks) == [ks |-> ks, err |-> ""]
Raise(ks, e) == [ks |-> ks, err |-> e]

\* KripkeStruct.__init__ without a record
EmptyKS ==
  [atoms |-> <<>>, states |-> EmptyDict, starts |-> {},
   trans |-> EmptyDict, trans_inverted |-> EmptyDict]

(***************************************************************************)
(* _UniqueValueDict.__setitem__                                            *)
(***************************************************************************)
\* setitem that does not look for the value under another key
setitem_unchecked(d, key, value) == [d |-> Put(d, key, value), err |-> ""]

setitem(d, key, value) ==
  IF key \in DOMAIN d /\ d[key] = value THEN [d |-> d, err |-> ""]
  ELSE IF value \in Values(d) THEN [d |-> d, err |-> ErrValue]
  ELSE [d |-> Put(d, key, value), err |-> ""]

\* self._states[state] = label inside a method
assign_state(ks, state, label) ==
  LET r == setitem(ks.states, state, label)
  IN  [ks |-> [ks EXCEPT !.states = r.d], err |-> r.err]

(***************************************************************************)
(* KripkeStruct methods                                                    *)
(***************************************************************************)
\* set_atoms that does not look at the states
set_atoms_unchecked(ks, a) == Ok([ks EXCEPT !.atoms = a])

set_atoms(ks, a) ==
  IF DOMAIN ks.states # {} THEN Raise(ks, ErrResetAtoms)
  ELSE Ok([ks EXCEPT !.atoms = a])

\* add_state that does not look the name up
add_state_name_unchecked(ks, state, label) ==
  IF label \in Values(ks.states) THEN Raise(ks, ErrAddLabel)
  ELSE assign_state(ks, state, label)

add_state(ks, state, label) ==
  IF state \in DOMAIN ks.states THEN Raise(ks, ErrAddName)
  ELSE IF label \in Values(ks.states) THEN Raise(ks, ErrAddLabel)
  ELSE assign_state(ks, state, label)

\* add_states that restores the states it started from when an item fails
RECURSIVE add_states_from(_, _, _)
add_states_from(ks0, ks, items) ==
  IF items = <<>> THEN Ok(ks)
  ELSE LET r == add_state(ks, Head(items)[1], Head(items)[2])
       IN  IF r.err # "" THEN Raise(ks0, r.err) ELSE add_states_from(ks0, r.ks, Tail(items))
add_states_transactional(ks, items) == add_states_from(ks, ks, items)

RECURSIVE add_states(_, _)
add_states(ks, items) ==
  IF items = <<>> THEN Ok(ks)
  ELSE LET r == add_state(ks, Head(items)[1], Head(items)[2])
       IN  IF r.err # "" THEN r ELSE add_states(r.ks, Tail(items))

set_label_of_state(ks, state, label) ==
  IF state \notin DOMAIN ks.states THEN Raise(ks, ErrSetLabelNoState)
  ELSE IF ks.states[state] = label THEN Ok(ks)
  ELSE IF label \in Values(ks.states) THEN Raise(ks, ErrSetLabelTaken)
  ELSE assign_state(ks, state, label)

\* the orders the dict _states may have: the order in which its names were
\* inserted
Orders ==
  {o \in [1 .. Len(NameSeq) -> Names] : \A i, j \in 1 .. Len(NameSeq) : o[i] = o[j] => i = j}

\* the members of S in the order ord
InOrder(S, ord) == SelectSeq(ord, LAMBDA x : x \in S)

\* the orders in which the set S may be walked: a set of strings is walked
\* in an order that depends on the hash seed and on how the set was filled,
\* so every walk of a set is a choice of its own, and a method that walks a
\* set yields the set of the outcomes its walks can give
RECURSIVE Walks(_)
Walks(S) ==
  IF S = {} THEN {<<>>}
  ELSE UNION {{<<x>> \o w : w \in Walks(S \ {x})} : x \in S}

\* for k in keys: d[k].remove(x)   (d a defaultdict(set); set.remove raises
\* KeyError when x is not in the set, after d[k] was inserted). keys is the
\* walk of a set: the keys before the failing one have lost x, the keys
\* after it are untouched
RECURSIVE remove_from_each(_, _, _)
remove_from_each(d, keys, x) ==
  IF keys = <<>> THEN [d |-> d, err |-> ""]
  ELSE LET k == Head(keys)
       IN  IF x \notin Get(d, k) THEN [d |-> Touch(d, k), err |-> ErrKey]
           ELSE remove_from_each(Put(d, k, d[k] \ {x}), Tail(keys), x)

\* lines 229-232: drop the outgoing edges of state
remove_outgoing(ks, state) ==
  IF state \in DOMAIN ks.trans
  THEN {[ks |-> [ks EXCEPT !.trans = Pop(ks.trans, state), !.trans_inverted = r.d],
         err |-> r.err] :
          r \in {remove_from_each(ks.trans_inverted, next_states, state) :
                   next_states \in Walks(ks.trans[state])}}
  ELSE {Ok(ks)}

\* remove_incoming that forgets the forward map
remove_incoming_inverse_only(ks, state) ==
  {Ok([ks EXCEPT !.trans_inverted = Pop(ks.trans_inverted, state)])}

\* lines 233-236: drop the incoming edges of state
remove_incoming(ks, state) ==
  IF state \in DOMAIN ks.trans_inverted
  THEN {[ks |-> [ks EXCEPT !.trans_inverted = Pop(ks.trans_inverted, state), !.trans = r.d],
         err |-> r.err] :
          r \in {remove_from_each(ks.trans, prev_states, state) :
                   prev_states \in Walks(ks.trans_inverted[state])}}
  ELSE {Ok(ks)}

\* remove_state that returns silently when the name is no state
remove_state_ignoring_missing(ks, state) ==
  IF state \notin DOMAIN ks.states THEN {Ok(ks)}
  ELSE UNION {IF r1.err # "" THEN {r1} ELSE remove_incoming(r1.ks, state) :
                r1 \in remove_outgoing([ks EXCEPT !.states = Pop(ks.states, state)], state)}

remove_state(ks, state) ==
  IF state \notin DOMAIN ks.states THEN {Raise(ks, ErrRemoveNoState)}
  ELSE UNION {IF r1.err # "" THEN {r1} ELSE remove_incoming(r1.ks, state) :
                r1 \in remove_outgoing([ks EXCEPT !.states = Pop(ks.states, state)], state)}

RECURSIVE remove_states(_, _)
remove_states(ks, lst) ==
  IF lst = <<>> THEN {Ok(ks)}
  ELSE UNION {IF r.err # "" THEN {r} ELSE remove_states(r.ks, Tail(lst)) :
                r \in remove_state(ks, Head(lst))}

\* set_starts that adds the names to the start set it had
set_starts_merging(ks, lst) ==
  IF \E i \in 1 .. Len(lst) : lst[i] \notin DOMAIN ks.states
  THEN Raise(ks, ErrStartNoState)
  ELSE Ok([ks EXCEPT !.starts = @ \cup {lst[i] : i \in 1 .. Len(lst)}])

set_starts(ks, lst) ==
  IF \E i \in 1 .. Len(lst) : lst[i] \notin DOMAIN ks.states
  THEN Raise(ks, ErrStartNoState)
  ELSE Ok([ks EXCEPT !.starts = {lst[i] : i \in 1 .. Len(lst)}])

\* add_edge that forgets the inverse map
add_edge_forward_only(ks, state, next_state) ==
  [ks EXCEPT !.trans = Put(ks.trans, state, Get(ks.trans, state) \cup {next_state})]

\* lines 303-304: insert one edge into both maps
add_edge(ks, state, next_state) ==
  [ks EXCEPT !.trans = Put(ks.trans, state, Get(ks.trans, state) \cup {next_state}),
             !.trans_inverted = Put(ks.trans_inverted, next_state,
                                    Get(ks.trans_inverted, next_state) \cup {state})]

\* add_targets that does not look the target up in the states
RECURSIVE add_targets_unchecked(_, _, _)
add_targets_unchecked(ks, state, next_states) ==
  IF next_states = <<>> THEN Ok(ks)
  ELSE add_targets_unchecked(add_edge(ks, state, Head(next_states)), state, Tail(next_states))

\* lines 297-304: the inner loop of add_trans
RECURSIVE add_targets(_, _, _)
add_targets(ks, state, next_states) ==
  IF next_states = <<>> THEN Ok(ks)
  ELSE IF Head(next_states) \notin DOMAIN ks.states THEN Raise(ks, ErrTransNoTarget)
  ELSE add_targets(add_edge(ks, state, Head(next_states)), state, Tail(next_states))

RECURSIVE add_trans(_, _)
add_trans(ks, items) ==
  IF items = <<>> THEN Ok(ks)
  ELSE IF Head(items)[1] \notin DOMAIN ks.states THEN Raise(ks, ErrTransNoSource)
  ELSE LET r == add_targets(ks, Head(items)[1], Head(items)[2])
       IN  IF r.err # "" THEN r ELSE add_trans(r.ks, Tail(items))

\* lines 342-346: remove one edge from both maps
\* remove_edge that skips an edge the forward map does not have
remove_edge_ignoring_missing(ks, state, next_state) ==
  IF next_state \notin Get(ks.trans, state)
  THEN Ok([ks EXCEPT !.trans = Touch(ks.trans, state)])
  ELSE Ok([ks EXCEPT !.trans = Put(ks.trans, state, ks.trans[state] \ {next_state}),
                     !.trans_inverted = Put(ks.trans_inverted, next_state,
                                Get(ks.trans_inverted, next_state) \ {state})])

remove_edge(ks, state, next_state) ==
  IF next_state \notin Get(ks.trans, state)
  THEN Raise([ks EXCEPT !.trans = Touch(ks.trans, state)], ErrRemoveNoTrans)
  ELSE LET t == Put(ks.trans, state, ks.trans[state] \ {next_state})
       IN  IF state \notin Get(ks.trans_inverted, next_state)
           THEN Raise([ks EXCEPT !.trans = t,
                                 !.trans_inverted = Touch(ks.trans_inverted, next_state)], ErrKey)
           ELSE Ok([ks EXCEPT !.trans = t,
                              !.trans_inverted = Put(ks.trans_inverted, next_state,
                                         ks.trans_inverted[next_state] \ {state})])

RECURSIVE remove_targets(_, _, _)
remove_targets(ks, state, next_states) ==
  IF next_states = <<>> THEN Ok(ks)
  ELSE LET r == remove_edge(ks, state, Head(next_states))
       IN  IF r.err # "" THEN r ELSE remove_targets(r.ks, state, Tail(next_states))

RECURSIVE remove_trans(_, _)
remove_trans(ks, items) ==
  IF items = <<>> THEN Ok(ks)
  ELSE LET r == remove_targets(ks, Head(items)[1], Head(items)[2])
       IN  IF r.err # "" THEN r ELSE remove_trans(r.ks, Tail(items))

\* reverse_all_trans as two assignments in a row, the second reading the
\* forward map the first has already replaced
reverse_all_trans_in_turn(ks) ==
  [ks EXCEPT !.trans = ks.trans_inverted, !.trans_inverted = ks.trans_inverted]

reverse_all_trans(ks) ==
  [ks EXCEPT !.trans = ks.trans_inverted, !.trans_inverted = ks.trans]

(***************************************************************************)
(* KripkeStruct.get_SCCs (Kosaraju).  ord is the order of the _states      *)
(* dict (the order of insertion); every walk of a set is a choice of its   *)
(* own, so a definition of this section yields the set of the outcomes     *)
(* the walks can give.  An outcome of get_SCCs is                          *)
(*   [ret |-> the set of components, ks |-> self afterwards, err]          *)
(***************************************************************************)
\* lines 370-377: DFS(state, visited, order_stack); st is
\* [visited, order_stack, trans], trans being self._trans, which the reads
\* self._trans[state] extend
RECURSIVE DFS(_, _), DFS_successors(_, _)
DFS(state, st) ==
  {[st2 EXCEPT !.order_stack = Append(@, state)] :
     st2 \in UNION {DFS_successors(successors,
                                   [st EXCEPT !.visited = @ \cup {state},
                                              !.trans = Touch(@, state)]) :
                      successors \in Walks(Get(st.trans, state))}}
DFS_successors(successors, st) ==
  IF successors = <<>> THEN {st}
  ELSE UNION {DFS_successors(Tail(successors), st1) :
                st1 \in (IF Head(successors) \in st.visited THEN {st}
                         ELSE DFS(Head(successors), st))}

\* lines 379-381: the first pass over self._states
RECURSIVE first_pass(_, _)
first_pass(todo, st) ==
  IF todo = <<>> THEN {st}
  ELSE UNION {first_pass(Tail(todo), st1) :
                st1 \in (IF Head(todo) \in st.visited THEN {st} ELSE DFS(Head(todo), st))}

\* a round of DFS that leaves the names it visits in order_stack
RECURSIVE round_DFS_keeps_order_stack(_, _, _, _)
round_DFS_keeps_order_stack(reversed_graph, tmp_stack, visited, order_stack) ==
  IF tmp_stack = <<>>
  THEN {[reversed_graph |-> reversed_graph, visited |-> visited, order_stack |-> order_stack]}
  ELSE LET current_state == tmp_stack[Len(tmp_stack)]
           visited1 == visited \cup {current_state}
           successors == Get(reversed_graph.trans, current_state)
       IN  UNION {round_DFS_keeps_order_stack(
                     [reversed_graph EXCEPT !.trans = Touch(@, current_state)],
                     SubSeq(tmp_stack, 1, Len(tmp_stack) - 1) \o pushed,
                     visited1,
                     order_stack) :
                    pushed \in Walks(successors \ visited1)}

\* lines 396-408: one round of DFS on the reversed graph with an explicit
\* stack; pushed are the successors not yet visited, in the order of the walk
RECURSIVE round_DFS(_, _, _, _)
round_DFS(reversed_graph, tmp_stack, visited, order_stack) ==
  IF tmp_stack = <<>>
  THEN {[reversed_graph |-> reversed_graph, visited |-> visited, order_stack |-> order_stack]}
  ELSE LET current_state == tmp_stack[Len(tmp_stack)]
           visited1 == visited \cup {current_state}
           successors == Get(reversed_graph.trans, current_state)
       IN  UNION {round_DFS([reversed_graph EXCEPT !.trans = Touch(@, current_state)],
                            SubSeq(tmp_stack, 1, Len(tmp_stack) - 1) \o pushed,
                            visited1,
                            SelectSeq(order_stack, LAMBDA x : x # current_state)) :
                    pushed \in Walks(successors \ visited1)}

\* lines 410-413: the round's component is recorded and its states are
\* removed from the reversed graph; d is what the round's DFS left.
\* list(visited) is a walk of the set visited
round_recorded(d, SCCs) ==
  {[reversed_graph |-> r.ks, order_stack |-> d.order_stack,
    SCCs |-> SCCs \cup {d.visited}, err |-> r.err] :
     r \in UNION {remove_states(d.reversed_graph, lst) : lst \in Walks(d.visited)}}

\* lines 392-413: one round of the while loop on the locals of get_SCCs
second_pass_round(reversed_graph, order_stack, SCCs) ==
  IF order_stack = <<>>
  THEN {[reversed_graph |-> reversed_graph, order_stack |-> order_stack, SCCs |-> SCCs,
         err |-> "IndexError"]}
  ELSE UNION {round_recorded(d, SCCs) :
                d \in round_DFS(reversed_graph, <<order_stack[Len(order_stack)]>>, {},
                                SubSeq(order_stack, 1, Len(order_stack) - 1))}

\* lines 391-415: the rounds of the second pass
RECURSIVE second_pass(_, _, _)
second_pass(reversed_graph, order_stack, SCCs) ==
  IF DOMAIN reversed_graph.states = {} THEN {[ret |-> SCCs, err |-> ""]}
  ELSE UNION {IF r.err # "" THEN {[ret |-> r.SCCs, err |-> r.err]}
              ELSE second_pass(r.reversed_graph, r.order_stack, r.SCCs) :
                r \in second_pass_round(reversed_graph, order_stack, SCCs)}

\* get_SCCs whose second pass walks the graph itself, not the reversed graph
get_SCCs_not_reversed(ks, ord) ==
  UNION {{[ret |-> r.ret, ks |-> [ks EXCEPT !.trans = st.trans], err |-> r.err] :
            r \in second_pass([ks EXCEPT !.trans = st.trans], st.order_stack, {})} :
           st \in first_pass(InOrder(DOMAIN ks.states, ord),
                             [visited |-> {}, order_stack |-> <<>>, trans |-> ks.trans])}

get_SCCs(ks, ord) ==
  UNION {{[ret |-> r.ret, ks |-> [ks EXCEPT !.trans = st.trans], err |-> r.err] :
            r \in second_pass(reverse_all_trans([ks EXCEPT !.trans = st.trans]),
                              st.order_stack, {})} :
           st \in first_pass(InOrder(DOMAIN ks.states, ord),
                             [visited |-> {}, order_stack |-> <<>>, trans |-> ks.trans])}

(***************************************************************************)
(* checking.py: the CTL evaluators.  An evaluator yields                   *)
(* [ret |-> the set it returns, ks |-> the caller's graph afterwards,      *)
(* err |-> "" or the exception raised].                                    *)
(*                                                                         *)
(* The evaluators read the graph through ks.states, ks.atoms, ks.trans,    *)
(* ks.trans_inverted and ks.get_state_label_set.  The KripkeStruct of      *)
(* models.py keeps these under _states, _atoms, _trans, _trans_inverted    *)
(* and get_label_of_state and has no attribute of the public names, so an  *)
(* evaluator called on it as it stands raises AttributeError at its first  *)
(* read.  The accessors below are the ones the evaluators are written      *)
(* against: each yields the field object itself, so a read of a missing    *)
(* key through ks.trans or ks.trans_inverted inserts the key in the        *)
(* graph's own map.                                                        *)
(***************************************************************************)
ks_states(ks) == ks.states

ks_atoms(ks) == ks.atoms

ks_trans(ks) == ks.trans

ks_trans_inverted(ks) == ks.trans_inverted

\* the defaultdict after d[k] was read for every k of S
TouchAll(d, S) == [x \in (DOMAIN d) \cup S |-> Get(d, x)]

\* lines 252-254, 345-347: the predecessors of the states of sat_states
Predecessors(trans_inv, sat_states) == UNION {Get(trans_inv, state) : state \in sat_states}

NOT(ks, property1) == (DOMAIN ks_states(ks)) \ property1

\* EU_loop that stops after its first iteration
EU_loop_once(trans_inv, property1, sat_states, size) ==
  [ret |-> sat_states \cup (property1 \cap Predecessors(trans_inv, sat_states)),
   trans_inverted |-> TouchAll(trans_inv, sat_states)]

\* lines 250-263: the fixed-point loop of EU
RECURSIVE EU_loop(_, _, _, _)
EU_loop(trans_inv, property1, sat_states, size) ==
  LET predecessors == Predecessors(trans_inv, sat_states)
      trans_inv1 == TouchAll(trans_inv, sat_states)
      sat_states1 == sat_states \cup (property1 \cap predecessors)
      new_size == Cardinality(sat_states1)
  IN  IF new_size = size THEN [ret |-> sat_states1, trans_inverted |-> trans_inv1]
      ELSE EU_loop(trans_inv1, property1, sat_states1, new_size)

\* an iteration that keeps only the new states
EU_iteration_replacing(trans_inv, property1, sat_states, size) ==
  LET sat_states1 == property1 \cap Predecessors(trans_inv, sat_states)
  IN  [sat_states |-> sat_states1,
       size |-> Cardinality(sat_states1),
       trans_inverted |-> TouchAll(trans_inv, sat_states),
       break |-> Cardinality(sat_states1) = size]

\* lines 250-263: one iteration of the loop of EU; break tells whether the
\* loop is left
EU_iteration(trans_inv, property1, sat_states, size) ==
  LET predecessors == Predecessors(trans_inv, sat_states)
      sat_states1 == sat_states \cup (property1 \cap predecessors)
      new_size == Cardinality(sat_states1)
  IN  [sat_states |-> sat_states1,
       size |-> new_size,
       trans_inverted |-> TouchAll(trans_inv, sat_states),
       break |-> new_size = size]

EU(ks, property1, property2) ==
  With(EU_loop(ks_trans_inverted(ks), property1, property2, Cardinality(property2)),
       LAMBDA r : [ret |-> r.ret, ks |-> [ks EXCEPT !.trans_inverted = r.trans_inverted],
                   err |-> ""])

\* lines 343-356: the fixed-point loop of EG
RECURSIVE EG_loop(_, _, _)
EG_loop(trans_inv, sat_states, size) ==
  LET predecessors == Predecessors(trans_inv, sat_states)
      trans_inv1 == TouchAll(trans_inv, sat_states)
      sat_states1 == sat_states \cup predecessors
      new_size == Cardinality(sat_states1)
  IN  IF new_size = size THEN sat_states1
      ELSE EG_loop(trans_inv1, sat_states1, new_size)

\* lines 320-323: the copy of ks without the states outside property1
RECURSIVE sub_graph_of(_, _, _)
sub_graph_of(sub_graph, todo, property1) ==
  IF todo = <<>> THEN {Ok(sub_graph)}
  ELSE IF Head(todo) \in property1
  THEN sub_graph_of(sub_graph, Tail(todo), property1)
  ELSE UNION {IF r.err # "" THEN {r} ELSE sub_graph_of(r.ks, Tail(todo), property1) :
                r \in remove_state(sub_graph, Head(todo))}

\* the union of all components, the one-state components included
NonTrivial_every_component(SCCs) == UNION SCCs

\* lines 330-332: the union of the components with more than one state
NonTrivial(SCCs) == UNION {SCC \in SCCs : Cardinality(SCC) > 1}

\* the outcomes of EG: ord is the order of the dict ks.states, which is also
\* the order of the copy's _states in get_SCCs
EG(ks, property1, ord) ==
  UNION {IF g.err # "" THEN {[ret |-> {}, ks |-> ks, err |-> g.err]}
         ELSE {With(NonTrivial(c.ret),
                    LAMBDA sat_states :
                      IF c.err # "" THEN [ret |-> {}, ks |-> ks, err |-> c.err]
                      ELSE IF sat_states = {} THEN [ret |-> {}, ks |-> ks, err |-> ""]
                      ELSE [ret |-> EG_loop(ks_trans_inverted(c.ks), sat_states,
                                            Cardinality(sat_states)),
                            ks |-> ks, err |-> ""]) :
                 c \in get_SCCs(g.ks, ord)} :
           g \in sub_graph_of(ks, InOrder(DOMAIN ks_states(ks), ord), property1)}

AU(ks, property1, property2, ord) ==
  With(EU(ks, NOT(ks, property2), NOT(ks, property1) \cap NOT(ks, property2)),
       LAMBDA u :
         {[ret |-> NOT(ks, u.ret) \cap NOT(ks, g.ret), ks |-> g.ks, err |-> g.err] :
            g \in EG(u.ks, NOT(u.ks, property2), ord)})

ErrGetLabel == "Can't get the Label of a Non-Existing State"
ErrSATAtom == "Can't check on an atom that's not in the Kripke Structure"

\* x & (1 << i) is not zero
BitSet(x, i) == (x \div (2 ^ i)) % 2 = 1

\* models.py get_label_of_state: bit i of the label stands for the atom at
\* position length - 1 - i (counted from 0)
get_label_of_state(ks, state) ==
  IF state \notin DOMAIN ks.states THEN [ret |-> {}, ks |-> ks, err |-> ErrGetLabel]
  ELSE LET label == ks.states[state]
           length == Len(ks.atoms)
       IN  [ret |-> {ks.atoms[length - i] : i \in {j \in 0 .. (length - 1) : BitSet(label, j)}},
            ks |-> ks, err |-> ""]

ErrType == "TypeError"

\* get_label_of_state on a state whose stored label is a list of atom names:
\* label & 1 << i raises TypeError in the first round of the loop, and
\* without atoms the loop has no round
get_label_of_state_of_names(ks, state) ==
  IF state \notin DOMAIN ks.states THEN [ret |-> {}, ks |-> ks, err |-> ErrGetLabel]
  ELSE IF Len(ks.atoms) = 0 THEN [ret |-> {}, ks |-> ks, err |-> ""]
  ELSE [ret |-> {}, ks |-> ks, err |-> ErrType]

\* ks.get_state_label_set(state): the set of atom names of the state's label
get_state_label_set(ks, state) == get_label_of_state(ks, state).ret

IsAtom(ks, name) == \E i \in DOMAIN ks_atoms(ks) : ks_atoms(ks)[i] = name

\* SAT_atom that reads bit i as the atom at position i
SAT_atom_bits_not_reversed(ks, atomic_property) ==
  IF atomic_property = "True" THEN [ret |-> DOMAIN ks_states(ks), ks |-> ks, err |-> ""]
  ELSE IF atomic_property = "False" THEN [ret |-> {}, ks |-> ks, err |-> ""]
  ELSE IF ~IsAtom(ks, atomic_property) THEN [ret |-> {}, ks |-> ks, err |-> ErrSATAtom]
  ELSE [ret |-> {state \in DOMAIN ks_states(ks) :
                   \E i \in 0 .. (Len(ks_atoms(ks)) - 1) :
                     BitSet(ks_states(ks)[state], i) /\ ks_atoms(ks)[i + 1] = atomic_property},
        ks |-> ks, err |-> ""]

SAT_atom(ks, atomic_property) ==
  IF atomic_property = "True" THEN [ret |-> DOMAIN ks_states(ks), ks |-> ks, err |-> ""]
  ELSE IF atomic_property = "False" THEN [ret |-> {}, ks |-> ks, err |-> ""]
  ELSE IF ~IsAtom(ks, atomic_property) THEN [ret |-> {}, ks |-> ks, err |-> ErrSATAtom]
  ELSE [ret |-> {state \in DOMAIN ks_states(ks) :
                   atomic_property \in get_state_label_set(ks, state)},
        ks |-> ks, err |-> ""]

IMPLIES(ks, property1, property2) == NOT(ks, property1) \cup property2

IFF(ks, property1, property2) ==
  IMPLIES(ks, property1, property2) \cap IMPLIES(ks, property2, property1)

\* EX that follows the inverse map
EX_of_predecessors(ks, property1) ==
  [ret |-> {state \in DOMAIN ks_states(ks) :
              Get(ks_trans_inverted(ks), state) \cap property1 # {}},
   ks |-> [ks EXCEPT !.trans_inverted = TouchAll(@, DOMAIN ks_states(ks))],
   err |-> ""]

\* lines 196-205: every state's ks.trans[state] is read
EX(ks, property1) ==
  [ret |-> {state \in DOMAIN ks_states(ks) : Get(ks_trans(ks), state) \cap property1 # {}},
   ks |-> [ks EXCEPT !.trans = TouchAll(@, DOMAIN ks_states(ks))],
   err |-> ""]

\* AX without the outer complement
AX_outer_NOT_missing(ks, property1) == EX(ks, NOT(ks, property1))

\* AX without the inner complement
AX_inner_NOT_missing(ks, property1) ==
  With(EX(ks, property1),
       LAMBDA x : [ret |-> NOT(x.ks, x.ret), ks |-> x.ks, err |-> x.err])

AX(ks, property1) ==
  With(EX(ks, NOT(ks, property1)),
       LAMBDA x : [ret |-> NOT(x.ks, x.ret), ks |-> x.ks, err |-> x.err])

\* EF whose path states must satisfy the property themselves
EF_within_property(ks, property1) == EU(ks, property1, property1)

EF(ks, property1) == EU(ks, DOMAIN ks_states(ks), property1)

AG(ks, property1) ==
  With(EF(ks, NOT(ks, property1)),
       LAMBDA f : [ret |-> NOT(f.ks, f.ret), ks |-> f.ks, err |-> f.err])

AF(ks, property1, ord) ==
  {[ret |-> NOT(g.ks, g.ret), ks |-> g.ks, err |-> g.err] :
     g \in EG(ks, NOT(ks, property1), ord)}

(***************************************************************************)
(* The KripkeStruct machine: one action per public method                  *)
(***************************************************************************)
Self ==
  [atoms |-> atoms, states |-> states, starts |-> starts,
   trans |-> trans, trans_inverted |-> trans_inverted]

\* lists of at most MaxBatch items
Lists(S) == UNION {[1 .. n -> S] : n \in 0 .. MaxBatch}

\* position of a name in the order the inputs list names in
NameIdx(n) == CHOOSE i \in 1 .. Len(NameSeq) : NameSeq[i] = n

\* dict literals  name -> label  in iteration order: one entry per key,
\* keys listed in name order
StateDicts ==
  {d \in Lists(Names \X Labels) :
     \A i, j \in DOMAIN d : i < j => NameIdx(d[i][1]) < NameIdx(d[j][1])}

\* lists of at most MaxBatch edges in (source, target) order; an edge may repeat
EdgeLeq(e, f) ==
  \/ NameIdx(e[1]) < NameIdx(f[1])
  \/ e[1] = f[1] /\ NameIdx(e[2]) <= NameIdx(f[2])
EdgeLists ==
  {e \in Lists(Names \X Names) : \A i, j \in DOMAIN e : i < j => EdgeLeq(e[i], e[j])}

\* the dict  source -> list of targets  that lists the edges e in order
RECURSIVE Group(_)
Group(e) ==
  IF e = <<>> THEN <<>>
  ELSE LET h == Head(e)
           g == Group(Tail(e))
       IN  IF g # <<>> /\ g[1][1] = h[1]
           THEN <<<<h[1], <<h[2]>> \o g[1][2]>>>> \o Tail(g)
           ELSE <<<<h[1], <<h[2]>>>>>> \o g

\* dict literals  source -> list of targets  with at most MaxBatch edges in all
TransDicts == {Group(e) : e \in EdgeLists}

\* __init__ that sets the start states before it adds the states
new_KripkeStruct_starts_first(model_json) ==
  IF model_json.IsNone THEN Ok(EmptyKS)
  ELSE LET r1 == set_atoms(EmptyKS, model_json.Atoms)
           r2 == set_starts(r1.ks, model_json.Starts)
           r3 == add_states(r2.ks, model_json.States)
           r4 == add_trans(r3.ks, model_json.Trans)
       IN  IF r1.err # "" THEN r1
           ELSE IF r2.err # "" THEN r2
           ELSE IF r3.err # "" THEN r3
           ELSE r4

\* KripkeStruct.__init__(model_json)
new_KripkeStruct(model_json) ==
  IF model_json.IsNone THEN Ok(EmptyKS)
  ELSE LET r1 == set_atoms(EmptyKS, model_json.Atoms)
           r2 == add_states(r1.ks, model_json.States)
           r3 == set_starts(r2.ks, model_json.Starts)
           r4 == add_trans(r3.ks, model_json.Trans)
       IN  IF r1.err # "" THEN r1
           ELSE IF r2.err # "" THEN r2
           ELSE IF r3.err # "" THEN r3
           ELSE r4

\* the arguments the machine is constructed from: None, or a record
\* (IsNone tells the two apart, the other fields of None are not read)
ModelJsons ==
  {[IsNone |-> TRUE, Atoms |-> <<>>, States |-> <<>>, Starts |-> <<>>, Trans |-> <<>>],
   [IsNone |-> FALSE,
    Atoms |-> <<"p", "q">>,
    States |-> <<<<"s1", 0>>, <<"s2", 1>>, <<"s3", 2>>>>,
    Starts |-> <<"s1">>,
    Trans |-> <<<<"s1", <<"s1", "s2">>>>, <<"s2", <<"s3">>>>, <<"s3", <<"s2">>>>>>],
   [IsNone |-> FALSE,
    Atoms |-> <<"p">>,
    States |-> <<<<"s1", 1>>>>,
    Starts |-> <<"s1">>,
    Trans |-> <<>>]}

Init ==
  \E model_json \in ModelJsons :
    LET r == new_KripkeStruct(model_json)
    IN  /\ r.err = ""
        /\ atoms = r.ks.atoms
        /\ states = r.ks.states
        /\ starts = r.ks.starts
        /\ trans = r.ks.trans
        /\ trans_inverted = r.ks.trans_inverted
        /\ last = [op |-> "__init__", arg |-> <<>>, err |-> ""]
        /\ nops = 0

\* last keeps the argument of the single-item methods
RecordedOps == {"add_state", "set_label_of_state", "setitem", "remove_state", "set_starts"}

\* the machine explores call sequences of at most MaxOps calls
CanCall == nops < MaxOps

Becomes(r, op, arg) ==
  /\ nops' = nops + 1
  /\ atoms' = r.ks.atoms
  /\ states' = r.ks.states
  /\ starts' = r.ks.starts
  /\ trans' = r.ks.trans
  /\ trans_inverted' = r.ks.trans_inverted
  /\ last' = [op |-> op, arg |-> IF op \in RecordedOps THEN arg ELSE <<>>, err |-> r.err]

SetAtoms ==
  /\ CanCall
  /\ \E a \in AtomLists : Becomes(set_atoms(Self, a), "set_atoms", a)

AddState ==
  /\ CanCall
  /\ \E s \in Names, l \in Labels : Becomes(add_state(Self, s, l), "add_state", <<s, l>>)

AddStates ==
  /\ CanCall
  /\ \E d \in StateDicts : Becomes(add_states(Self, d), "add_states", d)

SetLabelOfState ==
  /\ CanCall
  /\ \E s \in Names, l \in Labels :
    Becomes(set_label_of_state(Self, s, l), "set_label_of_state", <<s, l>>)

\* ks._states[s] = l from outside the class
SetItem ==
  /\ CanCall
  /\ \E s \in Names, l \in Labels : Becomes(assign_state(Self, s, l), "setitem", <<s, l>>)

RemoveState ==
  /\ CanCall
  /\ \E s \in Names :
       \E r \in remove_state(Self, s) : Becomes(r, "remove_state", s)

RemoveStates ==
  /\ CanCall
  /\ \E l \in Lists(Names) :
       \E r \in remove_states(Self, l) : Becomes(r, "remove_states", l)

SetStarts ==
  /\ CanCall
  /\ \E l \in Lists(Names) : Becomes(set_starts(Self, l), "set_starts", l)

AddTrans ==
  /\ CanCall
  /\ \E d \in TransDicts : Becomes(add_trans(Self, d), "add_trans", d)

RemoveTrans ==
  /\ CanCall
  /\ \E d \in TransDicts : Becomes(remove_trans(Self, d), "remove_trans", d)

ReverseAllTrans ==
  /\ CanCall
  /\ Becomes(Ok(reverse_all_trans(Self)), "reverse_all_trans", <<>>)

Next ==
  \/ SetAtoms
  \/ AddState
  \/ AddStates
  \/ SetLabelOfState
  \/ SetItem
  \/ RemoveState
  \/ RemoveStates
  \/ SetStarts
  \/ AddTrans
  \/ RemoveTrans
  \/ ReverseAllTrans

Spec == Init /\ [][Next]_vars

(***************************************************************************)
(* The evaluator machine: a graph is built, then one evaluator is called   *)
(* on it with sets of its states.                                          *)
(***************************************************************************)

\* the graph with states V and edges E, built by add_states and add_trans
GraphOf(V, E) ==
  [atoms |-> <<"p", "q">>,
   states |-> [n \in V |-> NameIdx(n) - 1],
   starts |-> {},
   trans |-> [n \in {e[1] : e \in E} |-> {e[2] : e \in {f \in E : f[1] = n}}],
   trans_inverted |-> [n \in {e[2] : e \in E} |-> {e[1] : e \in {f \in E : f[2] = n}}]]

InitCTL ==
  \E V \in SUBSET Names :
    \E E \in SUBSET (V \X V) :
      /\ Cardinality(E) <= MaxEdges
      /\ atoms = GraphOf(V, E).atoms
      /\ states = GraphOf(V, E).states
      /\ starts = GraphOf(V, E).starts
      /\ trans = GraphOf(V, E).trans
      /\ trans_inverted = GraphOf(V, E).trans_inverted
      /\ last = [op |-> "__init__", arg |-> <<>>, err |-> "", ret |-> {}, pre |-> GraphOf(V, E)]
      /\ nops = 0

\* one evaluator call per constructed structure
Fresh == last.op = "__init__"

Returns(r, op, arg) ==
  /\ nops' = nops + 1
  /\ atoms' = r.ks.atoms
  /\ states' = r.ks.states
  /\ starts' = r.ks.starts
  /\ trans' = r.ks.trans
  /\ trans_inverted' = r.ks.trans_inverted
  /\ last' = [op |-> op, arg |-> arg, err |-> r.err, ret |-> r.ret, pre |-> Self]

CallGetSCCs ==
  /\ Fresh
  /\ \E ord \in Orders :
       \E r \in get_SCCs(Self, ord) : Returns(r, "get_SCCs", <<>>)

CallEU ==
  /\ Fresh
  /\ \E p1 \in SUBSET (DOMAIN states), p2 \in SUBSET (DOMAIN states) :
       Returns(EU(Self, p1, p2), "EU", <<p1, p2>>)

CallEG ==
  /\ Fresh
  /\ \E p1 \in SUBSET (DOMAIN states), ord \in Orders :
       \E r \in EG(Self, p1, ord) : Returns(r, "EG", <<p1>>)

CallAU ==
  /\ Fresh
  /\ \E p1 \in SUBSET (DOMAIN states), p2 \in SUBSET (DOMAIN states), ord \in Orders :
       \E r \in AU(Self, p1, p2, ord) : Returns(r, "AU", <<p1, p2>>)

\* a set-valued connective leaves the graph alone
Pure(S) == [ret |-> S, ks |-> Self, err |-> ""]

\* the names SAT_atom is asked about: the literals, the atoms, an undeclared name
AtomNames == {"True", "False", "p", "q", "r"}

CallSATAtom ==
  /\ Fresh
  /\ \E name \in AtomNames : Returns(SAT_atom(Self, name), "SAT_atom", <<name>>)

CallNOT ==
  /\ Fresh
  /\ \E p1 \in SUBSET (DOMAIN states) : Returns(Pure(NOT(Self, p1)), "NOT", <<p1>>)

CallIMPLIES ==
  /\ Fresh
  /\ \E p1 \in SUBSET (DOMAIN states), p2 \in SUBSET (DOMAIN states) :
       Returns(Pure(IMPLIES(Self, p1, p2)), "IMPLIES", <<p1, p2>>)

CallIFF ==
  /\ Fresh
  /\ \E p1 \in SUBSET (DOMAIN states), p2 \in SUBSET (DOMAIN states) :
       Returns(Pure(IFF(Self, p1, p2)), "IFF", <<p1, p2>>)

CallEX ==
  /\ Fresh
  /\ \E p1 \in SUBSET (DOMAIN states) : Returns(EX(Self, p1), "EX", <<p1>>)

CallAX ==
  /\ Fresh
  /\ \E p1 \in SUBSET (DOMAIN states) : Returns(AX(Self, p1), "AX", <<p1>>)

CallEF ==
  /\ Fresh
  /\ \E p1 \in SUBSET (DOMAIN states) : Returns(EF(Self, p1), "EF", <<p1>>)

CallAG ==
  /\ Fresh
  /\ \E p1 \in SUBSET (DOMAIN states) : Returns(AG(Self, p1), "AG", <<p1>>)

CallAF ==
  /\ Fresh
  /\ \E p1 \in SUBSET (DOMAIN states), ord \in Orders :
       \E r \in AF(Self, p1, ord) : Returns(r, "AF", <<p1>>)

NextCTL ==
  \/ CallGetSCCs
  \/ CallEU
  \/ CallEG
  \/ CallAU
  \/ CallSATAtom
  \/ CallNOT
  \/ CallIMPLIES
  \/ CallIFF
  \/ CallEX
  \/ CallAX
  \/ CallEF
  \/ CallAG
  \/ CallAF

SpecCTL == InitCTL /\ [][NextCTL]_vars

(***************************************************************************)
(* The machine whose labels are lists of atom names: add_state and         *)
(* set_label_of_state store the label object they are given                *)
(***************************************************************************)
\* labels given as lists of atom names; "r" is in no atom list
LabelLists == {<<>>, <<"p">>, <<"q">>, <<"r">>, <<"p", "r">>}

InitLists ==
  /\ atoms = EmptyKS.atoms
  /\ states = EmptyKS.states
  /\ starts = EmptyKS.starts
  /\ trans = EmptyKS.trans
  /\ trans_inverted = EmptyKS.trans_inverted
  /\ last = [op |-> "__init__", arg |-> <<>>, err |-> ""]
  /\ nops = 0

AddStateOfNames ==
  /\ CanCall
  /\ \E s \in Names, l \in LabelLists :
       Becomes(add_state(Self, s, l), "add_state", <<s, l>>)

SetLabelOfNames ==
  /\ CanCall
  /\ \E s \in Names, l \in LabelLists :
       Becomes(set_label_of_state(Self, s, l), "set_label_of_state", <<s, l>>)

NextLists ==
  \/ SetAtoms
  \/ AddStateOfNames
  \/ SetLabelOfNames
  \/ RemoveState

SpecLists == InitLists /\ [][NextLists]_vars

(***************************************************************************)
(* The labelling machine: a structure constructed from atoms and labelled  *)
(* states, then one SAT_atom call                                          *)
(***************************************************************************)
\* the labels the constructor is given: up to every atom of the longest atom list
SATLabels == 0 .. (MaxLabel + 1)

SATStateDicts ==
  {d \in Lists(Names \X SATLabels) :
     \A i, j \in DOMAIN d : i < j => NameIdx(d[i][1]) < NameIdx(d[j][1])}

InitSAT ==
  \E a \in AtomLists, d \in SATStateDicts :
    LET r == new_KripkeStruct([IsNone |-> FALSE, Atoms |-> a, States |-> d,
                               Starts |-> <<>>, Trans |-> <<>>])
    IN  /\ r.err = ""
        /\ atoms = r.ks.atoms
        /\ states = r.ks.states
        /\ starts = r.ks.starts
        /\ trans = r.ks.trans
        /\ trans_inverted = r.ks.trans_inverted
        /\ last = [op |-> "__init__", arg |-> <<>>, err |-> "", ret |-> {}, pre |-> r.ks]
        /\ nops = 0

NextSAT == CallSATAtom

SpecSAT == InitSAT /\ [][NextSAT]_vars

(***************************************************************************)
(* The caller who builds the structure by hand: an empty KripkeStruct,     *)
(* then set_atoms, add_states, set_starts and add_trans with the entries   *)
(* of a record, one call per step, until a call raises.  last.arg is the   *)
(* record, nops the number of calls made.                                  *)
(***************************************************************************)
\* the empty list and the lists of one element
UpToOne(S) == {<<>>} \cup {<<x>> : x \in S}

\* the records a structure is built from: any atom list, any dict of
\* states, at most one start state and at most one transition
BuildJsons ==
  {[IsNone |-> FALSE, Atoms |-> a, States |-> d, Starts |-> l, Trans |-> Group(t)] :
     a \in AtomLists, d \in StateDicts, l \in UpToOne(Names), t \in UpToOne(Names \X Names)}

InitBuild ==
  \E model_json \in BuildJsons :
    /\ atoms = EmptyKS.atoms
    /\ states = EmptyKS.states
    /\ starts = EmptyKS.starts
    /\ trans = EmptyKS.trans
    /\ trans_inverted = EmptyKS.trans_inverted
    /\ last = [op |-> "__init__", arg |-> model_json, err |-> ""]
    /\ nops = 0

\* the k-th call is due: k - 1 calls were made and none raised
Due(k) == nops = k - 1 /\ last.err = ""

Built(r, op) ==
  /\ nops' = nops + 1
  /\ atoms' = r.ks.atoms
  /\ states' = r.ks.states
  /\ starts' = r.ks.starts
  /\ trans' = r.ks.trans
  /\ trans_inverted' = r.ks.trans_inverted
  /\ last' = [op |-> op, arg |-> last.arg, err |-> r.err]

BuildAtoms == Due(1) /\ Built(set_atoms(Self, last.arg.Atoms), "set_atoms")

BuildStates == Due(2) /\ Built(add_states(Self, last.arg.States), "add_states")

BuildStarts == Due(3) /\ Built(set_starts(Self, last.arg.Starts), "set_starts")

BuildTrans == Due(4) /\ Built(add_trans(Self, last.arg.Trans), "add_trans")

NextBuild ==
  \/ BuildAtoms
  \/ BuildStates
  \/ BuildStarts
  \/ BuildTrans

SpecBuild == InitBuild /\ [][NextBuild]_vars

(***************************************************************************)
(* EU iteration by iteration: a graph and the two sets are drawn, lines    *)
(* 243-244 set sat_states and size, and every step is one iteration of     *)
(* the while loop.  last holds EU's locals, nops counts the iterations.    *)
(***************************************************************************)
InitEU ==
  \E V \in SUBSET Names :
    \E E \in SUBSET (V \X V) :
      \E property1 \in SUBSET V, property2 \in SUBSET V :
        /\ Cardinality(E) <= MaxEdges
        /\ atoms = GraphOf(V, E).atoms
        /\ states = GraphOf(V, E).states
        /\ starts = GraphOf(V, E).starts
        /\ trans = GraphOf(V, E).trans
        /\ trans_inverted = GraphOf(V, E).trans_inverted
        /\ last = [op |-> "EU", arg |-> <<property1, property2>>, err |-> "",
                   sat_states |-> property2, size |-> Cardinality(property2),
                   pc |-> "while", pre |-> GraphOf(V, E)]
        /\ nops = 0

EUIteration ==
  /\ last.pc = "while"
  /\ \E r \in {EU_iteration(ks_trans_inverted(Self), last.arg[1],
                             last.sat_states, last.size)} :
       /\ last' = [last EXCEPT !.sat_states = r.sat_states,
                               !.size = r.size,
                               !.pc = IF r.break THEN "return" ELSE "while"]
       /\ trans_inverted' = r.trans_inverted
  /\ nops' = nops + 1
  /\ UNCHANGED <<atoms, states, starts, trans>>

NextEU == EUIteration

\* the loop runs on: an iteration that can be made is made
SpecEU == InitEU /\ [][NextEU]_vars /\ WF_vars(NextEU)

(***************************************************************************)
(* get_SCCs round by round: a graph and the order of its _states dict are   *)
(* drawn, and the walks of sets are chosen by the step that makes them.    *)
(* The first step is the first pass and the copy (lines 367-386), every    *)
(* further step one round of the while loop (lines 392-413) or the return. *)
(* last holds the locals of get_SCCs, nops counts the rounds.              *)
(***************************************************************************)
InitSCC ==
  \E V \in SUBSET Names :
    \E E \in SUBSET (V \X V) :
      \E ord \in Orders :
        /\ Cardinality(E) <= MaxEdges
        /\ atoms = GraphOf(V, E).atoms
        /\ states = GraphOf(V, E).states
        /\ starts = GraphOf(V, E).starts
        /\ trans = GraphOf(V, E).trans
        /\ trans_inverted = GraphOf(V, E).trans_inverted
        /\ last = [op |-> "get_SCCs", arg |-> <<>>, err |-> "", pc |-> "first_pass",
                   ord |-> ord, order_stack |-> <<>>, reversed_graph |-> GraphOf(V, E),
                   SCCs |-> {}, pre |-> GraphOf(V, E)]
        /\ nops = 0

SCCFirstPass ==
  /\ last.pc = "first_pass"
  /\ \E st \in first_pass(InOrder(DOMAIN states, last.ord),
                            [visited |-> {}, order_stack |-> <<>>, trans |-> trans]) :
       /\ trans' = st.trans
       /\ last' = [last EXCEPT
                     !.pc = "while",
                     !.order_stack = st.order_stack,
                     !.reversed_graph = reverse_all_trans([Self EXCEPT !.trans = st.trans])]
  /\ UNCHANGED <<atoms, states, starts, trans_inverted, nops>>

SCCRound ==
  /\ last.pc = "while"
  /\ DOMAIN last.reversed_graph.states # {}
  /\ \E r \in second_pass_round(last.reversed_graph, last.order_stack, last.SCCs) :
       last' = [last EXCEPT !.pc = IF r.err # "" THEN "raise" ELSE "while",
                            !.err = r.err,
                            !.order_stack = r.order_stack,
                            !.reversed_graph = r.reversed_graph,
                            !.SCCs = r.SCCs]
  /\ nops' = nops + 1
  /\ UNCHANGED <<atoms, states, starts, trans, trans_inverted>>

SCCReturn ==
  /\ last.pc = "while"
  /\ DOMAIN last.reversed_graph.states = {}
  /\ last' = [last EXCEPT !.pc = "return"]
  /\ UNCHANGED <<atoms, states, starts, trans, trans_inverted, nops>>

NextSCC ==
  \/ SCCFirstPass
  \/ SCCRound
  \/ SCCReturn

\* the method runs on: a step that can be made is made
SpecSCC == InitSCC /\ [][NextSCC]_vars /\ WF_vars(NextSCC)

(***************************************************************************)
(* Properties of the KripkeStruct machine (under Spec)                     *)
(***************************************************************************)
Data == <<atoms, states, starts, trans, trans_inverted>>

\* C1: after any sequence of calls, succeeding or raising, the inverse map
\* is the transpose of the forward map: t is in get_trans()[s] iff s is in
\* get_trans_inverted()[t], for all names s and t.
C1_InverseIsTranspose ==
  \A s, t \in Names : (t \in Get(trans, s)) <=> (s \in Get(trans_inverted, t))

\* a batch removal stopped at a missing edge after it removed one, and edges remain
C1_Witness ==
  /\ last.op = "remove_trans"
  /\ last.err = ErrRemoveNoTrans
  /\ nops = 1
  /\ Cardinality(Edges(trans)) = 3
  /\ Edges(trans_inverted) # {}

\* C2: after calls that return successfully the start set is a subset of
\* the current state names, also after remove_state removed a start state.
C2_StartsAreStates == (last.err = "") => (starts \subseteq DOMAIN states)

\* C3: after successful calls every label is an integer in 0 .. 2^n - 1,
\* n the number of atoms (a label of 2^n or more is rejected).
C3_LabelsInRange ==
  (last.err = "") => \A s \in DOMAIN states : states[s] \in 0 .. (2 ^ Len(atoms) - 1)

\* C4: no two distinct state names have the same label; set_label_of_state
\* with the state's own label changes nothing and returns, and with a label
\* held by a different state it raises and changes nothing.
C4_LabelsUnique ==
  /\ \A s, t \in DOMAIN states : s # t => states[s] # states[t]
  /\ \A s \in DOMAIN states : set_label_of_state(Self, s, states[s]) = Ok(Self)
  /\ \A s \in Names :
        \A t \in (DOMAIN states) \ {s} :
          LET r == set_label_of_state(Self, s, states[t])
          IN  r.err # "" /\ r.ks = Self

\* set_label_of_state was refused a label that another state holds
C4_Witness ==
  /\ last.op = "set_label_of_state"
  /\ last.err = ErrSetLabelTaken
  /\ \E t \in (DOMAIN states) \ {last.arg[1]} : states[t] = last.arg[2]

\* the names a dict  source -> targets  asks add_trans to connect
Asked(d) ==
  {d[i][1] : i \in DOMAIN d} \cup UNION {{d[i][2][j] : j \in DOMAIN d[i][2]} : i \in DOMAIN d}

EndpointsExist(ks) ==
  \A e \in Edges(ks.trans) \cup Edges(ks.trans_inverted) :
    e[1] \in DOMAIN ks.states /\ e[2] \in DOMAIN ks.states

\* C5: add_trans raises KripkeStructError whenever a source or a target it
\* is asked to connect is not a current state and never inserts that edge;
\* every edge of the forward or the inverse map joins two current states.
C5_EndpointsAreStates ==
  /\ EndpointsExist(Self)
  /\ \A d \in TransDicts :
        LET r == add_trans(Self, d)
        IN  /\ ~(Asked(d) \subseteq DOMAIN states)
                  => r.err \in {ErrTransNoSource, ErrTransNoTarget}
            /\ EndpointsExist(r.ks)

\* add_trans stopped at a target that is no state, after it inserted an edge
C5_Witness ==
  /\ last.op = "add_trans"
  /\ last.err = ErrTransNoTarget
  /\ Edges(trans) # {}
  /\ DOMAIN states # Names

\* C6: remove_state(x) on an existing state x removes x from the states and
\* every edge with x as source or target from both maps (a self-loop
\* included), and leaves the edges between other states and the labels of
\* the other states unchanged.
C6_RemoveState ==
  \A x \in DOMAIN states :
    \A r \in remove_state(Self, x) :
      LET Kept(E) == {e \in E : e[1] # x /\ e[2] # x}
      IN  /\ r.err = ""
          /\ DOMAIN r.ks.states = (DOMAIN states) \ {x}
          /\ \A s \in (DOMAIN states) \ {x} : r.ks.states[s] = states[s]
          /\ Edges(r.ks.trans) = Kept(Edges(trans))
          /\ Edges(r.ks.trans_inverted) = Kept(Edges(trans_inverted))
          /\ x \notin DOMAIN r.ks.trans
          /\ x \notin DOMAIN r.ks.trans_inverted

\* remove_state("s1") was the first call on the constructed graph (s1 had a
\* self-loop and an edge to s2); the edges between s2 and s3 are still there
C6_Witness ==
  /\ last.op = "remove_state"
  /\ last.arg = "s1"
  /\ last.err = ""
  /\ nops = 1
  /\ Edges(trans) = {<<"s2", "s3">>, <<"s3", "s2">>}
  /\ Edges(trans_inverted) = {<<"s2", "s3">>, <<"s3", "s2">>}

(***************************************************************************)
(* Properties of the evaluators (under SpecCTL).  last.pre is the graph    *)
(* the evaluator was called on, last.arg its set arguments, last.ret the   *)
(* set it returned.                                                        *)
(***************************************************************************)
Succ(g, s) == Get(g.trans, s)

\* the states of g from which an infinite path stays in S: the largest
\* Z within S all of whose members have a successor in Z
InfinitePathIn(g, S) ==
  UNION {Z \in SUBSET (S \cap DOMAIN g.states) : \A z \in Z : Succ(g, z) \cap Z # {}}

\* C7: EG(graph, S) is exactly the set of states from which there is an
\* infinite path that stays entirely in S.
C7_EGExact ==
  (last.op = "EG") => (last.err = "" /\ last.ret = InfinitePathIn(last.pre, last.arg[1]))

\* the states reachable from s by a path of g that stays in C (s included)
RECURSIVE ReachIn(_, _, _)
ReachIn(g, C, R) ==
  LET R1 == R \cup {t \in C : \E s \in R : t \in Succ(g, s)}
  IN  IF R1 = R THEN R ELSE ReachIn(g, C, R1)

\* C8: get_SCCs returns a partition of the state set into its strongly
\* connected components: the union is the state set, no two returned sets
\* overlap, the states of one set reach each other by edges inside the set,
\* and no two states of different sets are mutually reachable.
C8_SCCPartition ==
  (last.op = "get_SCCs") =>
    LET g == last.pre
        V == DOMAIN g.states
        P == last.ret
    IN  /\ last.err = ""
        /\ UNION P = V
        /\ {} \notin P
        /\ \A C, D \in P : C # D => C \cap D = {}
        /\ \A C \in P : \A a, b \in C : b \in ReachIn(g, C, {a})
        /\ \A C, D \in P : C # D =>
              \A a \in C, b \in D : ~(b \in ReachIn(g, V, {a}) /\ a \in ReachIn(g, V, {b}))

\* get_SCCs returned a component of more than one state next to another one
C8_Witness ==
  /\ last.op = "get_SCCs"
  /\ Cardinality(last.ret) = 2
  /\ \E C \in last.ret : Cardinality(C) = 2
  /\ Cardinality(Edges(last.pre.trans)) >= 4

\* Z = S2 \cup (S1 \cap predecessors(Z))
EUStep(g, S1, S2, Z) == S2 \cup (S1 \cap {s \in DOMAIN g.states : Succ(g, s) \cap Z # {}})

\* the states with a finite path to S2 whose earlier states are all in S1
EUPaths(g, S1, S2) ==
  {s \in DOMAIN g.states :
     \E n \in 1 .. Cardinality(Names) :
       \E path \in [1 .. n -> DOMAIN g.states] :
         /\ path[1] = s
         /\ path[n] \in S2
         /\ \A i \in 1 .. (n - 1) : path[i] \in S1 /\ path[i + 1] \in Succ(g, path[i])}

\* C9: EU(graph, S1, S2) is the least fixpoint of
\* Z = S2 \cup (S1 \cap predecessors(Z)): the states from which a finite path
\* (possibly of length zero) ends in S2 with every earlier state in S1.
C9_EULeastFixpoint ==
  (last.op = "EU") =>
    LET g == last.pre
        S1 == last.arg[1]
        S2 == last.arg[2]
    IN  /\ last.err = ""
        /\ last.ret = EUStep(g, S1, S2, last.ret)
        /\ \A Z \in SUBSET (DOMAIN g.states) :
              Z = EUStep(g, S1, S2, Z) => last.ret \subseteq Z
        /\ last.ret = EUPaths(g, S1, S2)

\* EU returned two states more than S2: the loop ran at least two rounds that added
C9_Witness ==
  /\ last.op = "EU"
  /\ last.arg[2] # {}
  /\ Cardinality(last.ret \ last.arg[2]) = 2
  /\ \E s \in last.ret : Succ(last.pre, s) \cap last.arg[2] = {} /\ s \notin last.arg[2]

\* Z = S2 \cup (S1 \cap {s : every successor of s is in Z})
AUStep(g, S1, S2, Z) == S2 \cup (S1 \cap {s \in DOMAIN g.states : Succ(g, s) \subseteq Z})

\* the least fixpoint of AUStep
AULeast(g, S1, S2) ==
  {s \in DOMAIN g.states :
     \A Z \in SUBSET (DOMAIN g.states) : AUStep(g, S1, S2, Z) \subseteq Z => s \in Z}

\* every state has a successor
Total(g) == \A s \in DOMAIN g.states : Succ(g, s) # {}

\* C10: on a graph in which each state has a successor, AU(graph, S1, S2)
\* is the least fixpoint of Z = S2 \cup (S1 \cap {s : every successor of s
\* is in Z}).
C10_AUExact ==
  (last.op = "AU" /\ Total(last.pre)) =>
    (last.err = "" /\ last.ret = AULeast(last.pre, last.arg[1], last.arg[2]))

\* C11: EX(graph, S) is exactly the set of current states with at least one
\* outgoing transition to a member of S; a state without outgoing
\* transitions is never in it.
C11_EXExact ==
  (last.op = "EX") =>
    LET g == last.pre
        S == last.arg[1]
    IN  /\ last.err = ""
        /\ last.ret = {e[1] : e \in {f \in Edges(g.trans) : f[2] \in S}} \cap DOMAIN g.states
        /\ \A s \in DOMAIN g.states : Succ(g, s) = {} => s \notin last.ret

\* EX returned some states but not one that has successors, all outside S,
\* and not one that has no successor
C11_Witness ==
  /\ last.op = "EX"
  /\ last.ret # {}
  /\ \E s \in (DOMAIN last.pre.states) \ last.ret : Succ(last.pre, s) # {}
  /\ \E s \in (DOMAIN last.pre.states) \ last.ret : Succ(last.pre, s) = {}

\* C12: SAT_atom(graph, name) returns the states whose label has the bit of
\* atom name set when name is a declared atom (the atom at position i of n,
\* counted from 0, is bit n - 1 - i); all states for "True" and the empty
\* set for "False", whatever the atoms are; for any other name it raises.
C12_SATAtom ==
  (last.op = "SAT_atom") =>
    LET g == last.pre
        name == last.arg[1]
        n == Len(g.atoms)
    IN  IF name = "True" THEN last.err = "" /\ last.ret = DOMAIN g.states
        ELSE IF name = "False" THEN last.err = "" /\ last.ret = {}
        ELSE IF \E i \in 1 .. n : g.atoms[i] = name
        THEN /\ last.err = ""
             /\ last.ret = {s \in DOMAIN g.states :
                              \E i \in 1 .. n :
                                g.atoms[i] = name /\ (g.states[s] \div (2 ^ (n - i))) % 2 = 1}
        ELSE last.err = ErrSATAtom

\* SAT_atom of the second of two atoms returned one of two states, a state
\* that holds both atoms
C12_Witness ==
  /\ last.op = "SAT_atom"
  /\ last.arg = <<"q">>
  /\ last.pre.atoms = <<"p", "q">>
  /\ Cardinality(DOMAIN last.pre.states) = 2
  /\ \E s \in last.ret : last.pre.states[s] = 3
  /\ Cardinality(last.ret) = 1

\* C13: no evaluator call and no get_SCCs call changes the caller's graph:
\* atoms, states, starts and the forward and inverse maps, the keys they
\* contain included, are equal before and after the call.
C13_GraphUnchanged == (last.op # "__init__") => (Self = last.pre)

\* C14: EF(graph, S) equals EU(graph, AllStates, S) and is exactly the set
\* of states from which some state of S is reachable in zero or more
\* transitions.
C14_EFReach ==
  (last.op = "EF") =>
    LET g == last.pre
        V == DOMAIN g.states
        S == last.arg[1]
    IN  /\ last.err = ""
        /\ last.ret = EU(g, V, S).ret
        /\ last.ret = {s \in V : ReachIn(g, V, {s}) \cap S # {}}

\* EF of a single state returned a state that reaches it in two transitions
\* and not in fewer
C14_Witness ==
  /\ last.op = "EF"
  /\ Cardinality(last.arg[1]) = 1
  /\ \E s \in last.ret :
        /\ s \notin last.arg[1]
        /\ Succ(last.pre, s) \cap last.arg[1] = {}

\* C15: AX(g,S) = NOT(g, EX(g, NOT(g,S))), AG(g,S) = NOT(g, EF(g, NOT(g,S)))
\* and AF(g,S) = NOT(g, EG(g, NOT(g,S))), whatever order EG iterates in.
C15_Dualities ==
  LET g == last.pre
      S == last.arg[1]
  IN  /\ (last.op = "AX") => (last.ret = NOT(g, EX(g, NOT(g, S)).ret))
      /\ (last.op = "AG") => (last.ret = NOT(g, EF(g, NOT(g, S)).ret))
      /\ (last.op = "AF") =>
            \A ord \in Orders :
              \A r \in EG(g, NOT(g, S), ord) : last.ret = NOT(g, r.ret)

\* AX returned some states and not all: a state all of whose successors are
\* in S, which has one, is in, a state with a successor outside S is out
C15_Witness ==
  /\ last.op = "AX"
  /\ \E s \in last.ret : Succ(last.pre, s) # {} /\ Succ(last.pre, s) \subseteq last.arg[1]
  /\ \E s \in (DOMAIN last.pre.states) \ last.ret : Succ(last.pre, s) \cap last.arg[1] # {}

\* C16: set_atoms raises and leaves the atoms unchanged whenever a state
\* exists and replaces the atoms when no state exists (also after every
\* state was removed again); the atoms never change in a step that starts
\* or ends with a state.
C16_AtomsFrozen ==
  /\ [](\A a \in AtomLists :
          LET r == set_atoms(Self, a)
          IN  IF DOMAIN states # {}
              THEN r.err = ErrResetAtoms /\ r.ks = Self
              ELSE r.err = "" /\ r.ks = [Self EXCEPT !.atoms = a])
  /\ [][atoms' # atoms => (DOMAIN states = {} /\ DOMAIN states' = {})]_vars

\* set_atoms replaced the atoms of a structure constructed with state s1,
\* after s1 was removed (s1 is still named as a start state: see C2)
C16_Witness ==
  /\ last.op = "set_atoms"
  /\ last.err = ""
  /\ nops = 2
  /\ starts = {"s1"}
  /\ DOMAIN states = {}
  /\ atoms = <<"p", "q">>

\* C17: add_state(name, label) raises KripkeStructError if name is a state
\* already (also with a new label) or if another state holds the label, and
\* then nothing changes; otherwise it adds exactly the one state.
C17_AddState ==
  \A name \in Names, label \in Labels :
    LET r == add_state(Self, name, label)
    IN  IF name \in DOMAIN states
        THEN r.err = ErrAddName /\ r.ks = Self
        ELSE IF \E t \in DOMAIN states : states[t] = label
        THEN r.err = ErrAddLabel /\ r.ks = Self
        ELSE /\ r.err = ""
             /\ DOMAIN r.ks.states = (DOMAIN states) \cup {name}
             /\ r.ks.states[name] = label
             /\ \A t \in DOMAIN states : r.ks.states[t] = states[t]
             /\ [r.ks EXCEPT !.states = states] = Self

\* add_state was refused an existing name although no state holds the label
C17_Witness ==
  /\ last.op = "add_state"
  /\ last.err = ErrAddName
  /\ last.arg[1] \in DOMAIN states
  /\ \A t \in DOMAIN states : states[t] # last.arg[2]

\* name is one of the atoms of the structure
Declared(name) == \E i \in DOMAIN atoms : atoms[i] = name

\* C18: add_state and set_label_of_state given a label as a collection of
\* atom names raise KripkeStructError when the collection contains a name
\* that is not a declared atom, and the call adds or relabels no state.
C18_UndeclaredAtomRefused ==
  (/\ last.op \in {"add_state", "set_label_of_state"}
   /\ \E i \in DOMAIN last.arg[2] : ~Declared(last.arg[2][i]))
    => last.err \notin {"", ErrValue, ErrKey}

\* C19: set_starts(names) raises and leaves the start set unchanged if any
\* name is not a current state (also when earlier names of the list are);
\* otherwise the start set becomes exactly the given names.
C19_SetStarts ==
  \A lst \in Lists(Names) :
    LET r == set_starts(Self, lst)
        given == {lst[i] : i \in DOMAIN lst}
    IN  IF given \subseteq DOMAIN states
        THEN r.err = "" /\ r.ks = [Self EXCEPT !.starts = given]
        ELSE r.err = ErrStartNoState /\ r.ks = Self

\* set_starts was refused a list whose first name is a state and whose
\* second is not, and the start set it had is still there
C19_Witness ==
  /\ last.op = "set_starts"
  /\ last.err = ErrStartNoState
  /\ Len(last.arg) = 2
  /\ last.arg[1] \in DOMAIN states
  /\ last.arg[2] \notin DOMAIN states
  /\ starts = {"s1"}
  /\ last.arg[1] # "s1"

\* the batch result r is what the k-th item alone makes of the graph that
\* the items before it made, and the k-th item fails
StopsAt(r, before, at) ==
  /\ before.err = ""
  /\ at.err # ""
  /\ r.err = at.err
  /\ r.ks = at.ks

\* C20: add_states, add_trans, remove_states and remove_trans are not
\* transactional: when the k-th item fails the error is raised, the items
\* before it stay applied and no item after it is applied.
C20_BatchesNotTransactional ==
  /\ \A d \in StateDicts :
        LET r == add_states(Self, d)
        IN  r.err # "" =>
              \E k \in DOMAIN d :
                LET before == add_states(Self, SubSeq(d, 1, k - 1))
                IN  StopsAt(r, before, add_state(before.ks, d[k][1], d[k][2]))
  /\ \A l \in Lists(Names) :
        \A r \in remove_states(Self, l) :
          r.err # "" =>
            \E k \in DOMAIN l :
              \E before \in remove_states(Self, SubSeq(l, 1, k - 1)) :
                \E at \in remove_state(before.ks, l[k]) : StopsAt(r, before, at)
  /\ \A d \in TransDicts :
        LET r == add_trans(Self, d)
        IN  r.err # "" =>
              \E k \in DOMAIN d :
                LET before == add_trans(Self, SubSeq(d, 1, k - 1))
                IN  StopsAt(r, before, add_trans(before.ks, <<d[k]>>))
  /\ \A d \in TransDicts :
        LET r == remove_trans(Self, d)
        IN  r.err # "" =>
              \E k \in DOMAIN d :
                LET before == remove_trans(Self, SubSeq(d, 1, k - 1))
                IN  StopsAt(r, before, remove_trans(before.ks, <<d[k]>>))

\* add_trans on the structure constructed with the one state s1 and no
\* edge inserted s1 -> s1 and then stopped at a source that is no state
C20_Witness ==
  /\ last.op = "add_trans"
  /\ last.err = ErrTransNoSource
  /\ nops = 1
  /\ DOMAIN states = {"s1"}
  /\ Edges(trans) = {<<"s1", "s1">>}

\* C21: remove_state(name) for a name that is not a state raises the
\* KripkeStructError "Can't remove a Non-Existing State" and leaves the
\* atoms, the states, the start states and both transition maps as they
\* were.
C21_RemoveMissingState ==
  \A x \in Names \ DOMAIN states :
    \A r \in remove_state(Self, x) :
      /\ r.err = ErrRemoveNoState
      /\ r.ks.atoms = atoms
      /\ r.ks.states = states
      /\ r.ks.starts = starts
      /\ r.ks.trans = trans
      /\ r.ks.trans_inverted = trans_inverted

\* a state of the constructed graph was removed and then removed again:
\* the second call raised, on a graph that still has states, edges and the
\* removed name among its start states
C21_Witness ==
  /\ last.op = "remove_state"
  /\ last.err = ErrRemoveNoState
  /\ last.arg \notin DOMAIN states
  /\ last.arg \in starts
  /\ DOMAIN states # {}
  /\ Edges(trans) # {}

Transposed(E) == {<<e[2], e[1]>> : e \in E}

\* C22: remove_trans raises the KripkeStructError "Can't remove a
\* Non-Existing Transition" at the first edge it is asked to remove that the
\* forward map does not have (any more), whether or not its source and
\* target are states; that step removes no edge, and the edges of both maps
\* are then the edges before the call without the ones asked before it.
C22_RemoveMissingTrans ==
  \A e \in EdgeLists :
    LET r == remove_trans(Self, Group(e))
        Missing(k) == e[k] \notin Edges(trans) \ {e[i] : i \in 1 .. (k - 1)}
    IN  /\ r.err \in {"", ErrRemoveNoTrans}
        /\ (r.err = "") <=> (\A k \in DOMAIN e : ~Missing(k))
        /\ r.err # "" =>
              \E k \in DOMAIN e :
                /\ Missing(k)
                /\ \A j \in 1 .. (k - 1) : ~Missing(j)
                /\ Edges(r.ks.trans) = Edges(trans) \ {e[i] : i \in 1 .. (k - 1)}
                /\ Edges(r.ks.trans_inverted)
                     = Transposed(Edges(trans) \ {e[i] : i \in 1 .. (k - 1)})
        /\ (e # <<>> /\ e[1] \notin Edges(trans)) =>
              /\ Edges(r.ks.trans) = Edges(trans)
              /\ Edges(r.ks.trans_inverted) = Edges(trans_inverted)

\* remove_trans on the constructed graph removed one of its four edges and
\* then raised at an edge the graph does not have
C22_Witness ==
  /\ last.op = "remove_trans"
  /\ last.err = ErrRemoveNoTrans
  /\ nops = 1
  /\ Cardinality(Edges(trans)) = 3
  /\ Edges(trans_inverted) = Transposed(Edges(trans))

\* C23: reverse_all_trans swaps the forward and the inverse map and leaves
\* the atoms, the states and the start states unchanged; calling it twice
\* gives back the graph it started from.
C23_ReverseAllTrans ==
  LET r == reverse_all_trans(Self)
  IN  /\ r.trans = trans_inverted
      /\ r.trans_inverted = trans
      /\ Edges(r.trans) = Transposed(Edges(trans))
      /\ r.atoms = atoms
      /\ r.states = states
      /\ r.starts = starts
      /\ reverse_all_trans(r) = Self

\* reverse_all_trans was called on a graph whose edges are not symmetric:
\* the forward map now holds s2 -> s1 and no longer s1 -> s2
C23_Witness ==
  /\ last.op = "reverse_all_trans"
  /\ <<"s2", "s1">> \in Edges(trans)
  /\ <<"s1", "s2">> \notin Edges(trans)
  /\ <<"s1", "s2">> \in Edges(trans_inverted)
  /\ starts # {}

\* C30: after any sequence of calls, successful or raising, every key of
\* the forward map and of the inverse map is the name of a current state.
C30_KeysAreStates ==
  /\ DOMAIN trans \subseteq DOMAIN states
  /\ DOMAIN trans_inverted \subseteq DOMAIN states

\* C27: EG is sound: every state EG(graph, S) returns is in S and starts an
\* infinite path that stays entirely in S.
C27_EGSound ==
  (last.op = "EG") =>
    /\ last.err = ""
    /\ last.ret \subseteq last.arg[1]
    /\ last.ret \subseteq InfinitePathIn(last.pre, last.arg[1])
    /\ \A s \in last.ret : Succ(last.pre, s) \cap last.ret # {}

\* EG returned a state that lies on no cycle and leads into one
C27_Witness ==
  /\ last.op = "EG"
  /\ \E s \in last.ret :
        s \notin ReachIn(last.pre, last.arg[1], Succ(last.pre, s) \cap last.arg[1])
  /\ Cardinality(last.ret) = 3

\* C28: AX(graph, S) is exactly the set of states all of whose successors
\* are in S; a state without outgoing transitions is in it for every S, the
\* empty set included.
C28_AXExact ==
  (last.op = "AX") =>
    /\ last.err = ""
    /\ last.ret = {s \in DOMAIN last.pre.states : Succ(last.pre, s) \subseteq last.arg[1]}
    /\ \A s \in DOMAIN last.pre.states : Succ(last.pre, s) = {} => s \in last.ret

\* AX of the empty set returned the states without outgoing transitions of
\* a graph that has transitions
C28_Witness ==
  /\ last.op = "AX"
  /\ last.arg[1] = {}
  /\ last.ret # {}
  /\ last.ret # DOMAIN last.pre.states
  /\ \A s \in last.ret : Succ(last.pre, s) = {}

\* C24: a state added with a label given as a collection A of declared
\* atoms is stored as the bitmask of A (the atom at index i is bit n-1-i),
\* and get_label_of_state, which reads the bits that way, returns A again.
C24_LabelRoundTrip ==
  (/\ last.op = "add_state"
   /\ last.err = ""
   /\ \A i \in DOMAIN last.arg[2] : Declared(last.arg[2][i]))
    => LET g == get_label_of_state_of_names(Self, last.arg[1])
       IN  /\ g.err = ""
           /\ g.ret = {last.arg[2][i] : i \in DOMAIN last.arg[2]}

\* C25: KripkeStruct(record) gives the graph that an empty KripkeStruct
\* followed by set_atoms, add_states, set_starts and add_trans with the
\* record's entries, in that order, gives, and fails with the error of the
\* first of these calls that fails.
C25_ConstructorIsTheFourCalls ==
  (nops = 4 \/ last.err # "") =>
    LET r == new_KripkeStruct(last.arg)
    IN  /\ r.err = last.err
        /\ r.err = "" => r.ks = Self

\* the hand-built structure got its atoms, states and start state and then
\* add_trans raised at a target that is no state
C25_Witness ==
  /\ nops = 4
  /\ last.op = "add_trans"
  /\ last.err = ErrTransNoTarget
  /\ starts # {}
  /\ Len(atoms) > 0
  /\ new_KripkeStruct(last.arg).err = ErrTransNoTarget

\* what holds of the loop of EU besides the number of its iterations
EUGrowsToFixpoint ==
  /\ [](last.sat_states \subseteq last.arg[2] \cup (last.arg[1] \cap DOMAIN states))
  /\ [][/\ last.sat_states \subseteq last'.sat_states
        /\ (last'.pc = "return") <=> (last'.sat_states = last.sat_states)]_vars
  /\ <>(last.pc = "return")
  /\ []((last.pc = "return") =>
          last.sat_states = EU(last.pre, last.arg[1], last.arg[2]).ret)

\* C26 as stated: the loop of EU ends after at most |states| iterations
C26_EULoopAsStated ==
  /\ [](nops <= Cardinality(DOMAIN states))
  /\ EUGrowsToFixpoint

\* C26: the loop of EU terminates on every graph: sat_states never loses an
\* element from one iteration to the next, stays inside S2 \cup (S1 \cap
\* states), the loop is left at the first iteration that adds no state and
\* with what EU returns, and that is after at most |states| iterations, or
\* one iteration when the graph has no state.
C26_EULoop ==
  /\ [](nops <= IF DOMAIN states = {} THEN 1 ELSE Cardinality(DOMAIN states))
  /\ EUGrowsToFixpoint

\* the loop made as many iterations as the graph has states: two that added
\* a state and the one that found nothing to add
C26_Witness ==
  /\ last.pc = "return"
  /\ nops = 3
  /\ Cardinality(last.sat_states) = 3
  /\ Cardinality(last.arg[2]) = 1

\* the names in a list
Range(seq) == {seq[i] : i \in DOMAIN seq}

\* C29: in the second pass of get_SCCs, at the start of every round the
\* names left in the finish-order stack are the states left in the reversed
\* copy, so the stack is not empty when it is popped; every round removes
\* at least one state, and the loop ends after at most |states| rounds with
\* the stack and the copy both empty, returning what get_SCCs returns.
C29_SecondPassRounds ==
  /\ []((last.pc = "while") =>
          Range(last.order_stack) = DOMAIN last.reversed_graph.states)
  /\ [](last.err = "")
  /\ [](nops <= Cardinality(DOMAIN states))
  /\ [][nops' = nops + 1 =>
          /\ DOMAIN last'.reversed_graph.states \subseteq DOMAIN last.reversed_graph.states
          /\ DOMAIN last'.reversed_graph.states # DOMAIN last.reversed_graph.states]_vars
  /\ []((last.pc = "return") =>
          /\ last.order_stack = <<>>
          /\ DOMAIN last.reversed_graph.states = {}
          /\ \A r \in get_SCCs(last.pre, last.ord) : last.SCCs = r.ret)
  /\ <>(last.pc = "return")

\* the second pass of a graph of three states ended after two rounds, one
\* of which removed two states
C29_Witness ==
  /\ last.op = "get_SCCs"
  /\ last.pc = "return"
  /\ nops = 2
  /\ Cardinality(DOMAIN states) = 3
  /\ \E C \in last.SCCs : Cardinality(C) = 2

TypeOK ==
  /\ DOMAIN states \subseteq Names
  /\ starts \subseteq Names
  /\ DOMAIN trans \subseteq Names
  /\ DOMAIN trans_inverted \subseteq Names
====
